---- MODULE Spec2Model ----
(***************************************************************************)
(* h0pesignal: the confluence-scoring engine (src/analysis_engine.py) and  *)
(* the updater / display threads that exchange its results (src/main.py).  *)
(*                                                                         *)
(* Numbers are exact rationals n/d (d > 0).  A pandas cell is one of       *)
(*   Num(v)  a number,   NaN  a missing value,   None  an absent column.   *)
(* Weights are rationals in units of 1/WScale.                             *)
(***************************************************************************)
EXTENDS Integers, Sequences, FiniteSets, TLC

VARIABLES
    call,             \* engine: the invocation under study (function + arguments)
    ret,              \* engine: what the invocation returned ("pending" before)
    keep_running,     \* main.py:21
    all_results,      \* main.py:19  the shared collection
    data_lock,        \* main.py:20  holder of the lock: "free", "updater", "main"
    temp_results,     \* updater: the collection being built
    current_results,  \* main: the snapshot taken for rendering
    pcU,              \* updater thread position
    pcM,              \* main (display) thread position
    idx,              \* updater: index of the next instrument of the cycle
    cycle,            \* updater: number of the running refresh cycle
    rendered          \* main: the snapshot handed to ui.update_layout last

engineVars == <<call, ret>>
threadVars == <<keep_running, all_results, data_lock, temp_results,
                current_results, pcU, pcM, idx, cycle, rendered>>
vars == <<call, ret, keep_running, all_results, data_lock, temp_results,
          current_results, pcU, pcM, idx, cycle, rendered>>

---------------------------------------------------------------------------
(* Cells and IEEE comparisons                                              *)

Num(v)    == [k |-> "num", n |-> v, d |-> 1]
Frac(a,b) == [k |-> "num", n |-> a, d |-> b]
NaN       == [k |-> "nan", n |-> 0, d |-> 1]
None      == [k |-> "none", n |-> 0, d |-> 1]

IsNum(a)  == a.k = "num"
\* Python comparisons on floats: any comparison with NaN is False
Gt(a, b)  == IsNum(a) /\ IsNum(b) /\ a.n * b.d > b.n * a.d
Lt(a, b)  == IsNum(a) /\ IsNum(b) /\ a.n * b.d < b.n * a.d
Ge(a, b)  == IsNum(a) /\ IsNum(b) /\ a.n * b.d >= b.n * a.d
EqNum(a, b) == IsNum(a) /\ IsNum(b) /\ a.n * b.d = b.n * a.d

\* Series.get(key, default) / dict.get(key, default)
Get(row, col, default) == IF row[col].k = "none" THEN default ELSE row[col]

Abs(i) == IF i < 0 THEN -i ELSE i
\* int(x) of a float x = p/q (q > 0): truncation toward zero
TruncDiv(p, q) == IF p >= 0 THEN p \div q ELSE -((-p) \div q)
\* round(x) of a float x = p/q (q > 0): nearest, ties to even
RoundDiv(p, q) ==
    LET f == p \div q
        r == p - f * q
    IN  IF 2 * r < q THEN f
        ELSE IF 2 * r > q THEN f + 1
        ELSE IF f % 2 = 0 THEN f ELSE f + 1

---------------------------------------------------------------------------
(* Configuration (config.json), every key optional                         *)

DefaultMinDataPoints == 200
DefaultOverbought == 70
DefaultOversold == 30
DefaultAdxThreshold == 25
DefaultReversalSwing == 12
DefaultTrendContinuation == 8
DefaultMomentumScalp == 5
WScale == 2

\* the columns the indicator step appends for the EMA lengths 20, 50, 200
EmaCol(p) == CASE p = 20 -> "EMA_20"
               [] p = 50 -> "EMA_50"
               [] p = 200 -> "EMA_200"
               [] OTHER -> "EMA_other"

CdlCols == <<"CDL_DOJI_10_0.1", "CDL_INSIDE">>

Columns == {"close", "EMA_20", "EMA_50", "EMA_200", "EMA_other",
            "MACD_12_26_9", "MACDs_12_26_9", "RSI_14", "STOCHRSIk_14_14_3_3",
            "BBL_20_2.0", "BBU_20_2.0", "CCI_20_0.015", "ADX_14", "DMP_14",
            "DMN_14", "WILLR_14", "SUPERTd_7_3.0", "VWAP_D", "ISA_9_26_52",
            "ISB_9_26_52", "OBV", "CDL_DOJI_10_0.1", "CDL_INSIDE"}

Keys == {"ema", "macd", "rsi", "stoch_rsi", "bollinger_bands", "cci", "adx",
         "williams_r", "supertrend", "vwap", "ichimoku", "obv", "candlestick",
         "divergence", "patterns", "funding_rate"}

\* a config is a record of cells / partial maps:
\*   min_data_points, rsi_overbought, rsi_oversold, adx_threshold,
\*   reversal_swing, trend_continuation, momentum_scalp : cell (None = key absent)
\*   ema_periods : <<TRUE/FALSE key present, sequence of periods>>
\*   skor_agirliklar : function from a subset of Keys to weights in 1/WScale
EmptyConfig ==
    [min_data_points |-> None, rsi_overbought |-> None, rsi_oversold |-> None,
     adx_threshold |-> None, reversal_swing |-> None,
     trend_continuation |-> None, momentum_scalp |-> None,
     ema_periods |-> [has |-> FALSE, v |-> <<>>],
     skor_agirliklar |-> [x \in {} |-> 0]]

CfgGet(c, default) == IF c.k = "none" THEN default ELSE c

---------------------------------------------------------------------------
(* Interpreters: each returns [err, signal]; err = TRUE when the Python    *)
(* code raises.                                                            *)

Ok(s)  == [err |-> FALSE, signal |-> s]
Raised == [err |-> TRUE, signal |-> 0]

RECURSIVE SumSeq(_)
SumSeq(s) == IF s = <<>> THEN 0 ELSE Head(s) + SumSeq(Tail(s))

RECURSIVE MaxSeq(_)
MaxSeq(s) == IF Len(s) = 1 THEN s[1]
             ELSE LET m == MaxSeq(Tail(s)) IN IF s[1] > m THEN s[1] ELSE m

\* faulty variant: the vote sum itself taken as the signal
SignRawSum(i) == i

Sign(i) == IF i > 0 THEN 1 ELSE IF i < 0 THEN -1 ELSE 0

\* analysis_engine.py:138-142
EmaPeriods(cfg) == IF cfg.ema_periods.has THEN cfg.ema_periods.v ELSE <<50, 200>>
EmaVote(last, p) ==
    IF Gt(last["close"], Get(last, EmaCol(p), last["close"])) THEN 1 ELSE -1
analyze_ema(last, cfg) ==
    LET periods == EmaPeriods(cfg)
        signal_sum == SumSeq([i \in 1..Len(periods) |-> EmaVote(last, periods[i])])
    IN  IF Len(periods) = 0 THEN Raised    \* periods[0] in the value text
        ELSE Ok(Sign(signal_sum))

\* analysis_engine.py:144-146
analyze_macd(last) ==
    Ok(IF Gt(Get(last, "MACD_12_26_9", Num(0)), Get(last, "MACDs_12_26_9", Num(0)))
       THEN 1 ELSE -1)

\* analysis_engine.py:148-152
analyze_rsi(last, cfg) ==
    LET rsi_val == Get(last, "RSI_14", Num(50))
    IN  Ok(IF Gt(rsi_val, CfgGet(cfg.rsi_overbought, Num(DefaultOverbought))) THEN -1
           ELSE IF Lt(rsi_val, CfgGet(cfg.rsi_oversold, Num(DefaultOversold))) THEN 1
           ELSE 0)

\* analysis_engine.py:154-157
analyze_stoch_rsi(last) ==
    LET stoch_rsi_k == Get(last, "STOCHRSIk_14_14_3_3", Num(50))
    IN  Ok(IF Gt(stoch_rsi_k, Num(80)) THEN -1
           ELSE IF Lt(stoch_rsi_k, Num(20)) THEN 1 ELSE 0)

\* analysis_engine.py:159-161
analyze_bollinger_bands(last) ==
    Ok(IF Lt(last["close"], Get(last, "BBL_20_2.0", last["close"])) THEN 1
       ELSE IF Gt(last["close"], Get(last, "BBU_20_2.0", last["close"])) THEN -1
       ELSE 0)

\* analysis_engine.py:163-166
analyze_cci(last) ==
    LET cci_val == Get(last, "CCI_20_0.015", Num(0))
    IN  Ok(IF Gt(cci_val, Num(100)) THEN -1
           ELSE IF Lt(cci_val, Num(-100)) THEN 1 ELSE 0)

\* analysis_engine.py:168-174
analyze_adx(last, cfg) ==
    LET adx_val == Get(last, "ADX_14", Num(0))
        plus_di == Get(last, "DMP_14", Num(0))
        minus_di == Get(last, "DMN_14", Num(0))
        trend_direction == IF Gt(plus_di, minus_di) THEN 1 ELSE -1
    IN  Ok(IF Gt(adx_val, CfgGet(cfg.adx_threshold, Num(DefaultAdxThreshold)))
           THEN trend_direction ELSE 0)

\* analysis_engine.py:176-179
analyze_williams_r(last) ==
    LET wr_val == Get(last, "WILLR_14", Num(-50))
    IN  Ok(IF Lt(wr_val, Num(-80)) THEN 1
           ELSE IF Gt(wr_val, Num(-20)) THEN -1 ELSE 0)

\* analysis_engine.py:181-183
analyze_supertrend(last) ==
    Ok(IF EqNum(Get(last, "SUPERTd_7_3.0", Num(0)), Num(1)) THEN 1 ELSE -1)

\* analysis_engine.py:134-136
analyze_vwap(last) ==
    Ok(IF Gt(last["close"], Get(last, "VWAP_D", last["close"])) THEN 1 ELSE -1)

\* analysis_engine.py:185-189
analyze_ichimoku(last) ==
    LET isa == Get(last, "ISA_9_26_52", last["close"])
        isb == Get(last, "ISB_9_26_52", last["close"])
        is_above_cloud == Gt(last["close"], isa) /\ Gt(last["close"], isb)
        is_below_cloud == Lt(last["close"], isa) /\ Lt(last["close"], isb)
    IN  Ok(IF is_above_cloud THEN 1 ELSE IF is_below_cloud THEN -1 ELSE 0)

\* analysis_engine.py:191-193  (prev_obv: the previous row's OBV cell)
analyze_obv(last, prev_obv) ==
    Ok(IF Gt(Get(last, "OBV", Num(0)), CfgGet(prev_obv, Num(0))) THEN 1 ELSE -1)

\* analysis_engine.py:99-108: first CDL_ column (table order) that is != 0 wins.
\* NaN != 0 is True in Python and NaN > 0 is False.
RECURSIVE CdlScan(_, _)
CdlScan(last, cols) ==
    IF cols = <<>> THEN 0
    ELSE LET c == last[Head(cols)]
         IN  IF c.k = "none" \/ EqNum(c, Num(0)) THEN CdlScan(last, Tail(cols))
             ELSE IF Gt(c, Num(0)) THEN 1 ELSE -1
analyze_candlestick(last) == Ok(CdlScan(last, CdlCols))

\* analysis_engine.py:131-132
analyze_classical_patterns == Ok(0)

\* analysis_engine.py:195-199  (market_data: [is_none, funding_rate])
analyze_funding_rate(market_data) ==
    IF market_data.is_none THEN Raised      \* None.get(...): AttributeError
    ELSE LET fr == market_data.funding_rate
         IN  IF fr.k = "none" THEN Ok(0)
             ELSE Ok(IF Gt(fr, Frac(1, 100)) THEN -1
                     ELSE IF Lt(fr, Frac(-1, 100)) THEN 1 ELSE 0)

---------------------------------------------------------------------------
(* Divergence detector.  scipy's find_peaks is an external library: its    *)
(* answer is an input, given as the series values at the detected extrema  *)
(* (oldest first).  ext = [price_troughs, rsi_troughs, price_peaks,        *)
(* rsi_peaks], each a sequence of integers.                                *)

Last1(s) == s[Len(s)]
Last2(s) == s[Len(s) - 1]

\* analysis_engine.py:117-120
BullishDivergence(ext) ==
    /\ Len(ext.price_troughs) >= 2 /\ Len(ext.rsi_troughs) >= 2
    /\ Last1(ext.price_troughs) < Last2(ext.price_troughs)
    /\ Last1(ext.rsi_troughs) > Last2(ext.rsi_troughs)

\* analysis_engine.py:126-128
BearishDivergence(ext) ==
    /\ Len(ext.price_peaks) >= 2 /\ Len(ext.rsi_peaks) >= 2
    /\ Last1(ext.price_peaks) > Last2(ext.price_peaks)
    /\ Last1(ext.rsi_peaks) < Last2(ext.rsi_peaks)

\* faulty variant: the bearish test made first
analyze_divergence_bear_first(has_rsi, ext) ==
    IF ~has_rsi THEN Ok(0)
    ELSE IF BearishDivergence(ext) THEN Ok(-1)
    ELSE IF BullishDivergence(ext) THEN Ok(1) ELSE Ok(0)

\* analysis_engine.py:110-129
analyze_divergence(has_rsi, ext) ==
    IF ~has_rsi THEN Ok(0)
    ELSE LET signal1 == IF BullishDivergence(ext) THEN 1 ELSE 0
         IN  IF signal1 = 0 /\ BearishDivergence(ext) THEN Ok(-1) ELSE Ok(signal1)

---------------------------------------------------------------------------
(* Scoring, safety filter, classifier                                      *)

RECURSIVE SumOver(_, _)
SumOver(f, S) ==
    IF S = {} THEN 0
    ELSE LET x == CHOOSE y \in S : TRUE IN f[x] + SumOver(f, S \ {x})

\* self.score_weights.get(indicator, 1), in units of 1/WScale
Weight(cfg, indicator) ==
    IF indicator \in DOMAIN cfg.skor_agirliklar
    THEN cfg.skor_agirliklar[indicator] ELSE WScale

\* the float sum, as a numerator over WScale
WeightedSum(analysis_results, cfg) ==
    SumOver([i \in DOMAIN analysis_results |->
                analysis_results[i].signal * Weight(cfg, i)],
            DOMAIN analysis_results)

\* faulty variant: floor instead of truncation toward zero
IntOfSumFloor(p) == p \div WScale

\* int(x) at analysis_engine.py:211
IntOfSum(p) == TruncDiv(p, WScale)

\* analysis_engine.py:210-211
calculate_confluence_score(analysis_results, cfg) ==
    IntOfSum(WeightedSum(analysis_results, cfg))

\* analysis_engine.py:203: periods default [200] here
SafePeriods(cfg) == IF cfg.ema_periods.has THEN cfg.ema_periods.v ELSE <<200>>

\* faulty variant: the short side of the filter forgotten
CounterTrendLongOnly(score, close, ema) == score > 0 /\ Lt(close, ema)

\* analysis_engine.py:206-207
CounterTrend(score, close, ema) ==
    \/ score > 0 /\ Lt(close, ema)
    \/ score < 0 /\ Gt(close, ema)

\* analysis_engine.py:201-208: [err, is_safe, reason]
is_signal_safe(score, last, cfg) ==
    IF score = 0 THEN [err |-> FALSE, is_safe |-> TRUE, reason |-> ""]
    ELSE IF Len(SafePeriods(cfg)) = 0           \* max([]) raises ValueError
    THEN [err |-> TRUE, is_safe |-> TRUE, reason |-> ""]
    ELSE LET long_term_ema_value == last[EmaCol(MaxSeq(SafePeriods(cfg)))]
         IN  IF long_term_ema_value.k = "none"
             THEN [err |-> FALSE, is_safe |-> TRUE, reason |-> ""]
             ELSE IF CounterTrend(score, last["close"], long_term_ema_value)
             THEN [err |-> FALSE, is_safe |-> FALSE, reason |-> "Trend Karsiti"]
             ELSE [err |-> FALSE, is_safe |-> TRUE, reason |-> "Trend Uyumlu"]

\* analysis.get(key, {}).get("signal"): None when the key is absent
SignalOf(analysis, key) ==
    IF key \in DOMAIN analysis THEN Num(analysis[key].signal) ELSE None
\* Python's x != 0 (None != 0 is True)
NotZero(c) == ~EqNum(c, Num(0))

\* faulty variant: the candlestick half of the reversal rule forgotten
IsReversalDivergenceOnly(analysis) == NotZero(SignalOf(analysis, "divergence"))

\* analysis_engine.py:216
IsReversal(analysis) ==
    NotZero(SignalOf(analysis, "divergence")) \/ NotZero(SignalOf(analysis, "candlestick"))

\* analysis_engine.py:213-220
classify_signal_strategy(score, analysis, cfg) ==
    LET abs_score == Num(Abs(score))
    IN  IF IsReversal(analysis) THEN "Donus Formasyonu"
        ELSE IF Ge(abs_score, CfgGet(cfg.reversal_swing, Num(DefaultReversalSwing)))
        THEN "Guclu Swing"
        ELSE IF /\ Ge(abs_score, CfgGet(cfg.trend_continuation, Num(DefaultTrendContinuation)))
                /\ NotZero(SignalOf(analysis, "adx"))
        THEN "Trend Takip"
        ELSE IF Ge(abs_score, CfgGet(cfg.momentum_scalp, Num(DefaultMomentumScalp)))
        THEN "Momentum Scalp"
        ELSE "Zayif Sinyal"

---------------------------------------------------------------------------
(* Summary builder.  The text is modelled as the list of its entries, each *)
(* [name, sign, n] for "NAME(<sign><n>)" joined by ", "; or the marker.    *)

\* the order in which run_full_analysis fills analysis_results (dict order),
\* analysis_engine.py:53-68
KeyOrder == <<"ema", "macd", "rsi", "stoch_rsi", "bollinger_bands", "cci", "adx",
              "williams_r", "supertrend", "vwap", "ichimoku", "obv", "candlestick",
              "divergence", "patterns", "funding_rate">>

\* str.upper() on the indicator keys
Upper(ind) ==
    CASE ind = "ema" -> "EMA" [] ind = "macd" -> "MACD" [] ind = "rsi" -> "RSI"
      [] ind = "stoch_rsi" -> "STOCH_RSI"
      [] ind = "bollinger_bands" -> "BOLLINGER_BANDS"
      [] ind = "cci" -> "CCI" [] ind = "adx" -> "ADX"
      [] ind = "williams_r" -> "WILLIAMS_R" [] ind = "supertrend" -> "SUPERTREND"
      [] ind = "vwap" -> "VWAP" [] ind = "ichimoku" -> "ICHIMOKU"
      [] ind = "obv" -> "OBV" [] ind = "candlestick" -> "CANDLESTICK"
      [] ind = "divergence" -> "DIVERGENCE" [] ind = "patterns" -> "PATTERNS"
      [] ind = "funding_rate" -> "FUNDING_RATE"

\* analysis_engine.py:223: (NAME, signal * weight) of the nonzero signals, in
\* dict order; v is a numerator over WScale
Contributions(analysis, cfg) ==
    LET Listed(ind) == ind \in DOMAIN analysis /\ analysis[ind].signal # 0
        inds == SelectSeq(KeyOrder, Listed)
    IN  [i \in 1..Len(inds) |->
            [name |-> Upper(inds[i]),
             v |-> analysis[inds[i]].signal * Weight(cfg, inds[i])]]

\* analysis_engine.py:224: list.sort(key=abs, reverse=True), a stable sort:
\* the first entry of the largest magnitude comes first
RECURSIVE SortByAbsDesc(_)
SortByAbsDesc(cs) ==
    IF cs = <<>> THEN <<>>
    ELSE LET m == CHOOSE i \in 1..Len(cs) :
                    /\ \A j \in 1..Len(cs) : Abs(cs[j].v) <= Abs(cs[i].v)
                    /\ \A j \in 1..(i - 1) : Abs(cs[j].v) < Abs(cs[i].v)
             rest == [j \in 1..(Len(cs) - 1) |-> IF j < m THEN cs[j] ELSE cs[j + 1]]
         IN  <<cs[m]>> \o SortByAbsDesc(rest)

\* contributions[:3]
TopN == 3
Top(cs) == SubSeq(cs, 1, IF Len(cs) < TopN THEN Len(cs) ELSE TopN)

\* analysis_engine.py:225: f"{n}({'+' if v > 0 else ''}{v:.0f})"; the .0f
\* format rounds to the nearest integer, ties to even, and writes the minus
Render(c) ==
    [name |-> c.name,
     sign |-> IF c.v > 0 THEN "+" ELSE IF c.v < 0 THEN "-" ELSE "",
     n |-> RoundDiv(Abs(c.v), WScale)]

SummaryOf(top) ==
    [marker |-> top = <<>>, items |-> [i \in 1..Len(top) |-> Render(top[i])]]

\* faulty variant: the first three taken without sorting
generate_summary_details_unsorted(analysis, cfg) ==
    SummaryOf(Top(Contributions(analysis, cfg)))

\* analysis_engine.py:222-226; marker = TRUE is "Belirgin Sinyal Yok"
generate_summary_details(analysis, cfg) ==
    SummaryOf(Top(SortByAbsDesc(Contributions(analysis, cfg))))

---------------------------------------------------------------------------
(* VWAP.  A candle is [timestamp, high, low, close, volume]; timestamps    *)
(* are in ticks, TicksPerDay ticks to a calendar day; volumes are >= 0.    *)

TicksPerDay == 2

\* df['timestamp'].dt.date
DateOf(timestamp) == timestamp \div TicksPerDay

\* analysis_engine.py:91, as a numerator over 3
TPV3(c) == (c.high + c.low + c.close) * c.volume

\* groupby(date).cumsum(): the running sum within the row's own group
RECURSIVE GroupCumSum(_, _, _)
GroupCumSum(vals, dates, i) ==
    IF i = 0 THEN [d \in {dates[j] : j \in 1..Len(dates)} |-> 0]
    ELSE LET acc == GroupCumSum(vals, dates, i - 1)
         IN  [acc EXCEPT ![dates[i]] = @ + vals[i]]

\* faulty variant: one running sum over the whole table, no grouping by day
GroupKeyNone(rows, i) == 0

\* analysis_engine.py:92-93: the grouping key of row i
GroupKey(rows, i) == DateOf(rows[i].timestamp)

\* analysis_engine.py:94: float division; 0/0 is NaN (volumes are >= 0, so a
\* zero cumulative volume comes with a zero cumulative TPV)
VwapDiv(cum_tpv3, cum_volume) ==
    IF cum_volume = 0 THEN NaN ELSE Frac(cum_tpv3, 3 * cum_volume)

\* analysis_engine.py:89-96: the VWAP_D column
calculate_manual_vwap(rows) ==
    LET n == Len(rows)
        dates == [i \in 1..n |-> GroupKey(rows, i)]
        tpv == [i \in 1..n |-> TPV3(rows[i])]
        vol == [i \in 1..n |-> rows[i].volume]
    IN  [i \in 1..n |->
            VwapDiv(GroupCumSum(tpv, dates, i)[dates[i]],
                    GroupCumSum(vol, dates, i)[dates[i]])]

---------------------------------------------------------------------------
(* run_full_analysis.                                                      *)
(*   klines      [is_none, rows, ind]: rows the OHLCV candles; ind the      *)
(*               cells the indicator library appends to the last row, and  *)
(*               "OBV_prev", the OBV cell of the row before it             *)
(*   ext         find_peaks' answer (see analyze_divergence)               *)
(*   market_data [is_none, funding_rate]                                   *)
(*   ta_raises   whether the indicator library raises                      *)

IndCols == (Columns \ {"close", "VWAP_D"}) \cup {"OBV_prev"}

EmptyDetails == [x \in {} |-> [signal |-> 0]]

NoTrace == [raw_score |-> 0, is_safe |-> TRUE, reason |-> "",
            interpreters_run |-> FALSE, classifier_calls |-> 0]

\* analysis_engine.py:228-229
generate_empty_result(reason) ==
    [kind |-> "result", score |-> 0, strategy |-> reason, fiyat |-> Num(0),
     details |-> EmptyDetails, detay_str |-> reason, trace |-> NoTrace]

\* an exception leaving run_full_analysis
Propagates(type) == [kind |-> "exception", type |-> type]

\* analysis_engine.py:20
MinDataPoints(cfg) == CfgGet(cfg.min_data_points, Num(DefaultMinDataPoints))
\* faulty variant: the absent table not tested
InsufficientDataNoNoneTest(klines, cfg) ==
    Lt(Num(Len(klines.rows)), MinDataPoints(cfg))
InsufficientData(klines, cfg) ==
    klines.is_none \/ Lt(Num(Len(klines.rows)), MinDataPoints(cfg))

\* analysis_engine.py:49 (iloc[-1] on the table after the indicator step)
LastRow(klines) ==
    LET n == Len(klines.rows)
    IN  [c \in Columns |->
            IF c = "close" THEN Num(klines.rows[n].close)
            ELSE IF c = "VWAP_D" THEN calculate_manual_vwap(klines.rows)[n]
            ELSE klines.ind[c]]

\* analysis_engine.py:53-68
Interpret(klines, ext, market_data, cfg) ==
    LET last == LastRow(klines)
    IN  [i \in Keys |->
          CASE i = "ema" -> analyze_ema(last, cfg)
            [] i = "macd" -> analyze_macd(last)
            [] i = "rsi" -> analyze_rsi(last, cfg)
            [] i = "stoch_rsi" -> analyze_stoch_rsi(last)
            [] i = "bollinger_bands" -> analyze_bollinger_bands(last)
            [] i = "cci" -> analyze_cci(last)
            [] i = "adx" -> analyze_adx(last, cfg)
            [] i = "williams_r" -> analyze_williams_r(last)
            [] i = "supertrend" -> analyze_supertrend(last)
            [] i = "vwap" -> analyze_vwap(last)
            [] i = "ichimoku" -> analyze_ichimoku(last)
            [] i = "obv" -> analyze_obv(last, klines.ind["OBV_prev"])
            [] i = "candlestick" -> analyze_candlestick(last)
            [] i = "divergence" -> analyze_divergence(last["RSI_14"].k # "none", ext)
            [] i = "patterns" -> analyze_classical_patterns
            [] i = "funding_rate" -> analyze_funding_rate(market_data)]

\* f"Riskli ({reason})", analysis_engine.py:77
RiskyLabel(reason) ==
    CASE reason = "Trend Karsiti" -> "Riskli (Trend Karsiti)"
      [] reason = "Trend Uyumlu" -> "Riskli (Trend Uyumlu)"
      [] OTHER -> "Riskli ()"

\* faulty variant: floor division (score // 2) instead of int(score / 2)
HalveScoreFloor(score) == score \div 2

\* int(score / 2), analysis_engine.py:81
HalveScore(score) == TruncDiv(score, 2)

\* the rows an iloc[-k] needs, analysis_engine.py:49-50
RowsForLast == 1
RowsForPrev == 2

\* analysis_engine.py:72-87
ScoreAndClassify(klines, analysis_results, cfg) ==
    LET last == LastRow(klines)
        score == calculate_confluence_score(analysis_results, cfg)
        safe == is_signal_safe(score, last, cfg)
        strategy == IF ~safe.is_safe THEN RiskyLabel(safe.reason)
                    ELSE classify_signal_strategy(score, analysis_results, cfg)
        final_score == IF safe.is_safe THEN score ELSE HalveScore(score)
    IN  IF safe.err THEN Propagates("ValueError")
        ELSE [kind |-> "result", score |-> final_score, strategy |-> strategy,
              fiyat |-> last["close"], details |-> analysis_results,
              detay_str |-> generate_summary_details(analysis_results, cfg),
              trace |-> [raw_score |-> score, is_safe |-> safe.is_safe,
                         reason |-> safe.reason, interpreters_run |-> TRUE,
                         classifier_calls |-> IF safe.is_safe THEN 1 ELSE 0]]

\* analysis_engine.py:19-87
run_full_analysis(klines, ext, market_data, cfg, ta_raises) ==
    IF InsufficientData(klines, cfg) THEN generate_empty_result("Yetersiz veri")
    ELSE IF ta_raises THEN generate_empty_result("Indikator Hesaplama Hatasi")
    ELSE IF Len(klines.rows) < RowsForLast THEN Propagates("IndexError")
    ELSE IF Len(klines.rows) < RowsForPrev THEN Propagates("IndexError")
    ELSE LET out == Interpret(klines, ext, market_data, cfg)
         IN  IF \E i \in Keys : out[i].err
             THEN generate_empty_result("Analiz Yorumlama Hatasi")
             ELSE ScoreAndClassify(klines,
                                   [i \in Keys |-> [signal |-> out[i].signal]], cfg)

---------------------------------------------------------------------------
(* Bounded inputs                                                          *)

MaxWeight == 4        \* weights 1/WScale .. MaxWeight/WScale
MaxAbsScore == 13     \* raw scores handed to the filter and the classifier

Cells(S) == {None} \cup {Num(v) : v \in S}
PriceCells == {None, NaN} \cup {Num(v) : v \in {9, 10, 11}}

\* a last row with close and the given cells; every other column absent
Row(close, o) ==
    [c \in Columns |-> IF c \in DOMAIN o THEN o[c]
                       ELSE IF c = "close" THEN Num(close) ELSE None]

PartialMaps(D, V) == UNION {[S -> V] : S \in SUBSET D}

CfgPeriods(ps) == [EmptyConfig EXCEPT !.ema_periods = [has |-> TRUE, v |-> ps]]
CfgRsi == [EmptyConfig EXCEPT !.rsi_overbought = Num(60), !.rsi_oversold = Num(40)]
CfgAdx == [EmptyConfig EXCEPT !.adx_threshold = Num(20)]
CfgThresholds ==
    [EmptyConfig EXCEPT !.reversal_swing = Num(4), !.trend_continuation = Num(3),
                        !.momentum_scalp = Num(2)]
CfgWeights(w) == [EmptyConfig EXCEPT !.skor_agirliklar = w]

NoExt == [price_troughs |-> <<>>, rsi_troughs |-> <<>>,
          price_peaks |-> <<>>, rsi_peaks |-> <<>>]
BullExt == [price_troughs |-> <<5, 4>>, rsi_troughs |-> <<30, 35>>,
            price_peaks |-> <<8>>, rsi_peaks |-> <<60>>]
BearExt == [price_troughs |-> <<4, 5>>, rsi_troughs |-> <<30, 35>>,
            price_peaks |-> <<8, 9>>, rsi_peaks |-> <<70, 60>>]
BothExt == [price_troughs |-> <<5, 4>>, rsi_troughs |-> <<30, 35>>,
            price_peaks |-> <<8, 9>>, rsi_peaks |-> <<70, 60>>]
MaxExtrema == 2       \* extrema find_peaks reports per series: 0..MaxExtrema
ExtremaSeqs == UNION {[1..n -> {1, 2}] : n \in 0..MaxExtrema}
\* every answer of find_peaks over short series of two levels
DivExts == [price_troughs : ExtremaSeqs, rsi_troughs : ExtremaSeqs,
            price_peaks : ExtremaSeqs, rsi_peaks : ExtremaSeqs]
Exts == {NoExt, BullExt, BearExt, BothExt}

Market(fr) == [is_none |-> FALSE, funding_rate |-> fr]
NoMarket == [is_none |-> TRUE, funding_rate |-> None]
FundingCells == {None, Num(0), Num(1), Num(-1), Frac(1, 100), Frac(-1, 100)}

ScoreKeys == {"rsi", "macd", "ema"}
ScoreCalls ==
    {[fn |-> "calculate_confluence_score",
      analysis_results |-> [i \in DOMAIN a |-> [signal |-> a[i]]],
      cfg |-> CfgWeights(w)] :
        a \in PartialMaps(ScoreKeys, {-1, 0, 1}),
        w \in PartialMaps(ScoreKeys, 1..MaxWeight)}

\* the periods run_full_analysis can hand to the filter are never empty:
\* analyze_ema raises on an empty list before the filter runs
SafeConfigs == {EmptyConfig, CfgPeriods(<<50, 200>>), CfgPeriods(<<200, 20>>),
                CfgPeriods(<<20, 50>>), CfgPeriods(<<50, 100>>)}
SafeCalls ==
    {[fn |-> "is_signal_safe", score |-> sc,
      last |-> Row(10, [c \in {"EMA_50", "EMA_200"} |->
                          IF c = "EMA_50" THEN e50 ELSE e200]),
      cfg |-> cfg] :
        sc \in {-MaxAbsScore, -1, 0, 1, MaxAbsScore},
        e50 \in PriceCells, e200 \in PriceCells, cfg \in SafeConfigs}

SummaryKeys == {"ema", "macd", "rsi", "adx"}
SummaryCalls ==
    {[fn |-> "generate_summary_details",
      analysis |-> [i \in SummaryKeys |-> [signal |-> a[i]]],
      cfg |-> CfgWeights(w)] :
        a \in [SummaryKeys -> {-1, 0, 1}],
        w \in PartialMaps(ScoreKeys, 1..MaxWeight)}

ClassifyKeys == {"divergence", "candlestick", "adx"}
ClassifyCalls ==
    {[fn |-> "classify_signal_strategy", score |-> sc,
      analysis |-> [i \in ClassifyKeys |-> [signal |-> a[i]]], cfg |-> cfg] :
        sc \in (-MaxAbsScore)..MaxAbsScore,
        a \in [ClassifyKeys -> {-1, 0, 1}],
        cfg \in {EmptyConfig, CfgThresholds}}

\* one call of an interpreter: the row holds only cells of the columns it reads
ICall(fn, o, cfg) ==
    [fn |-> fn, last |-> Row(10, o), prev_obv |-> None, ext |-> NoExt,
     market_data |-> Market(None), cfg |-> cfg]
Cols2(a, x, b, y) == [c \in {a, b} |-> IF c = a THEN x ELSE y]
Cols1(a, x) == [c \in {a} |-> x]

InterpreterCalls ==
    {ICall("analyze_ema", o, cfg) :
        o \in PartialMaps({"EMA_50", "EMA_200"}, PriceCells),
        cfg \in {EmptyConfig, CfgPeriods(<<20, 50, 200>>), CfgPeriods(<<>>)}}
    \cup {ICall("analyze_macd", Cols2("MACD_12_26_9", x, "MACDs_12_26_9", y), EmptyConfig) :
        x \in Cells({-1, 0, 1}), y \in Cells({-1, 0, 1})}
    \cup {ICall("analyze_rsi", Cols1("RSI_14", x), cfg) :
        x \in Cells({20, 30, 50, 70, 80}), cfg \in {EmptyConfig, CfgRsi}}
    \cup {ICall("analyze_stoch_rsi", Cols1("STOCHRSIk_14_14_3_3", x), EmptyConfig) :
        x \in Cells({10, 20, 50, 80, 90})}
    \cup {ICall("analyze_bollinger_bands", Cols2("BBL_20_2.0", x, "BBU_20_2.0", y), EmptyConfig) :
        x \in PriceCells, y \in PriceCells}
    \cup {ICall("analyze_cci", Cols1("CCI_20_0.015", x), EmptyConfig) :
        x \in Cells({-150, -100, 0, 100, 150})}
    \cup {ICall("analyze_adx", [c \in {"ADX_14", "DMP_14", "DMN_14"} |->
                    IF c = "ADX_14" THEN x ELSE IF c = "DMP_14" THEN y ELSE z], cfg) :
        x \in Cells({20, 25, 30}), y \in Cells({1, 2}), z \in Cells({1, 2}),
        cfg \in {EmptyConfig, CfgAdx}}
    \cup {ICall("analyze_williams_r", Cols1("WILLR_14", x), EmptyConfig) :
        x \in Cells({-90, -80, -50, -20, -10})}
    \cup {ICall("analyze_supertrend", Cols1("SUPERTd_7_3.0", x), EmptyConfig) :
        x \in Cells({-1, 1})}
    \cup {ICall("analyze_vwap", Cols1("VWAP_D", x), EmptyConfig) : x \in PriceCells}
    \cup {ICall("analyze_ichimoku", Cols2("ISA_9_26_52", x, "ISB_9_26_52", y), EmptyConfig) :
        x \in PriceCells, y \in PriceCells}
    \cup {[ICall("analyze_obv", Cols1("OBV", x), EmptyConfig) EXCEPT !.prev_obv = y] :
        x \in Cells({4, 5}), y \in Cells({4, 5})}
    \cup {ICall("analyze_candlestick", Cols2("CDL_DOJI_10_0.1", x, "CDL_INSIDE", y), EmptyConfig) :
        x \in Cells({-100, 0, 100}), y \in Cells({-100, 0, 100})}
    \cup {[ICall("analyze_divergence", Cols1("RSI_14", x), EmptyConfig) EXCEPT !.ext = e] :
        x \in Cells({50}), e \in Exts \cup DivExts}
    \cup {ICall("analyze_classical_patterns", Cols1("RSI_14", None), EmptyConfig)}
    \cup {[ICall("analyze_funding_rate", Cols1("RSI_14", None), EmptyConfig)
              EXCEPT !.market_data = m] :
        m \in {Market(fr) : fr \in FundingCells} \cup {NoMarket}}

---------------------------------------------------------------------------
(* The engine's functions, one call at a time                              *)

Pending == [kind |-> "pending"]
Quiet ==
    /\ keep_running = TRUE /\ all_results = <<>> /\ data_lock = "free"
    /\ temp_results = <<>> /\ current_results = <<>> /\ pcU = "idle"
    /\ pcM = "idle" /\ idx = 0 /\ cycle = 0 /\ rendered = <<>>

\* the interpreter a call names, applied to the call's arguments
ApplyInterpreter(c) ==
    CASE c.fn = "analyze_ema" -> analyze_ema(c.last, c.cfg)
      [] c.fn = "analyze_macd" -> analyze_macd(c.last)
      [] c.fn = "analyze_rsi" -> analyze_rsi(c.last, c.cfg)
      [] c.fn = "analyze_stoch_rsi" -> analyze_stoch_rsi(c.last)
      [] c.fn = "analyze_bollinger_bands" -> analyze_bollinger_bands(c.last)
      [] c.fn = "analyze_cci" -> analyze_cci(c.last)
      [] c.fn = "analyze_adx" -> analyze_adx(c.last, c.cfg)
      [] c.fn = "analyze_williams_r" -> analyze_williams_r(c.last)
      [] c.fn = "analyze_supertrend" -> analyze_supertrend(c.last)
      [] c.fn = "analyze_vwap" -> analyze_vwap(c.last)
      [] c.fn = "analyze_ichimoku" -> analyze_ichimoku(c.last)
      [] c.fn = "analyze_obv" -> analyze_obv(c.last, c.prev_obv)
      [] c.fn = "analyze_candlestick" -> analyze_candlestick(c.last)
      [] c.fn = "analyze_divergence" ->
            analyze_divergence(c.last["RSI_14"].k # "none", c.ext)
      [] c.fn = "analyze_classical_patterns" -> analyze_classical_patterns
      [] c.fn = "analyze_funding_rate" -> analyze_funding_rate(c.market_data)

InterpreterNames == {c.fn : c \in InterpreterCalls}

CallInterpreter ==
    /\ ret = Pending /\ call.fn \in InterpreterNames
    /\ ret' = [kind |-> "signal", v |-> ApplyInterpreter(call)]
    /\ UNCHANGED <<call, threadVars>>

CallScore ==
    /\ ret = Pending /\ call.fn = "calculate_confluence_score"
    /\ ret' = [kind |-> "score",
               v |-> calculate_confluence_score(call.analysis_results, call.cfg)]
    /\ UNCHANGED <<call, threadVars>>

CallSafe ==
    /\ ret = Pending /\ call.fn = "is_signal_safe"
    /\ ret' = [kind |-> "safe", v |-> is_signal_safe(call.score, call.last, call.cfg)]
    /\ UNCHANGED <<call, threadVars>>

CallClassify ==
    /\ ret = Pending /\ call.fn = "classify_signal_strategy"
    /\ ret' = [kind |-> "strategy",
               v |-> classify_signal_strategy(call.score, call.analysis, call.cfg)]
    /\ UNCHANGED <<call, threadVars>>

CallSummary ==
    /\ ret = Pending /\ call.fn = "generate_summary_details"
    /\ ret' = [kind |-> "summary",
               v |-> generate_summary_details(call.analysis, call.cfg)]
    /\ UNCHANGED <<call, threadVars>>

InitUnits ==
    /\ call \in ScoreCalls \cup SafeCalls \cup ClassifyCalls \cup InterpreterCalls
                \cup SummaryCalls
    /\ ret = Pending
    /\ Quiet

NextUnits == CallInterpreter \/ CallScore \/ CallSafe \/ CallClassify \/ CallSummary

SpecUnits == InitUnits /\ [][NextUnits]_vars

---------------------------------------------------------------------------
(* Claims about the engine's functions (under SpecUnits)                   *)

\* the weighted sum of a score call, as a numerator over WScale, key by key
C3_Term(i) ==
    IF i \in DOMAIN call.analysis_results
    THEN call.analysis_results[i].signal *
         (IF i \in DOMAIN call.cfg.skor_agirliklar
          THEN call.cfg.skor_agirliklar[i] ELSE WScale)
    ELSE 0
C3_Sum == C3_Term("rsi") + C3_Term("macd") + C3_Term("ema")

\* the spec's example: {rsi: +1 (w = 2), macd: -1 (w = 1)}
C3_IsExample ==
    /\ DOMAIN call.analysis_results = {"rsi", "macd"}
    /\ call.analysis_results["rsi"].signal = 1
    /\ call.analysis_results["macd"].signal = -1
    /\ DOMAIN call.cfg.skor_agirliklar = {"rsi", "macd"}
    /\ call.cfg.skor_agirliklar["rsi"] = 2 * WScale
    /\ call.cfg.skor_agirliklar["macd"] = WScale

\* C3 (as stated): the score is the weighted sum rounded to the nearest
\* integer, for every signal map and every weight map.
C3_RoundedSum ==
    ret.kind = "score" => ret.v = RoundDiv(C3_Sum, WScale)

\* C3 (amended): the score is the weighted sum truncated toward zero: the
\* integer of the same sign and the largest magnitude not exceeding the
\* sum's; it is the exact sum when that is an integer, and the spec's
\* example gives 1.
C3_TruncatedSum ==
    ret.kind = "score" =>
        /\ C3_Sum >= 0 => /\ ret.v * WScale <= C3_Sum
                          /\ C3_Sum < (ret.v + 1) * WScale
        /\ C3_Sum <= 0 => /\ ret.v * WScale >= C3_Sum
                          /\ C3_Sum > (ret.v - 1) * WScale
        /\ C3_IsExample => ret.v = 1

C3_Witness ==
    /\ ret.kind = "score" /\ C3_Sum < 0 /\ C3_Sum % WScale # 0
    /\ ret.v * WScale > C3_Sum

\* the long-term EMA cell of a filter call: the column of the largest
\* configured period, 200 when none is configured
C4_Periods ==
    IF call.cfg.ema_periods.has
    THEN {call.cfg.ema_periods.v[i] : i \in 1..Len(call.cfg.ema_periods.v)}
    ELSE {200}
C4_LongEma ==
    call.last[EmaCol(CHOOSE p \in C4_Periods : \A q \in C4_Periods : q <= p)]
C4_Below(a, b) == a.k = "num" /\ b.k = "num" /\ a.n * b.d < b.n * a.d
C4_IsCounterTrend ==
    \/ call.score > 0 /\ C4_Below(call.last["close"], C4_LongEma)
    \/ call.score < 0 /\ C4_Below(C4_LongEma, call.last["close"])

\* C4: the filter has exactly three outcomes: safe with no reason when the
\* score is 0 or the long-term EMA column is absent; unsafe "counter-trend"
\* exactly when the score is positive with close below the long-term EMA or
\* negative with close above it; safe "trend-aligned" otherwise.
C4_ThreeOutcomes ==
    ret.kind = "safe" =>
        /\ ~ret.v.err
        /\ IF call.score = 0 \/ C4_LongEma.k = "none"
           THEN ret.v.is_safe /\ ret.v.reason = ""
           ELSE IF C4_IsCounterTrend
           THEN ~ret.v.is_safe /\ ret.v.reason = "Trend Karsiti"
           ELSE ret.v.is_safe /\ ret.v.reason = "Trend Uyumlu"

C4_Witness ==
    /\ ret.kind = "safe" /\ call.score < 0 /\ ~ret.v.is_safe
    /\ call.cfg.ema_periods.has /\ ret.v.reason = "Trend Karsiti"

C6_Sig(i) == call.analysis[i].signal
C6_Threshold(c, default) == IF c.k = "none" THEN default ELSE c.n
C6_Reversal == C6_Threshold(call.cfg.reversal_swing, DefaultReversalSwing)
C6_Trend == C6_Threshold(call.cfg.trend_continuation, DefaultTrendContinuation)
C6_Scalp == C6_Threshold(call.cfg.momentum_scalp, DefaultMomentumScalp)
C6_AbsScore == IF call.score < 0 THEN -call.score ELSE call.score
C6_Rule1 == C6_Sig("divergence") # 0 \/ C6_Sig("candlestick") # 0
C6_Rule2 == C6_AbsScore >= C6_Reversal
C6_Rule3 == C6_AbsScore >= C6_Trend /\ C6_Sig("adx") # 0
C6_Rule4 == C6_AbsScore >= C6_Scalp

\* C6: the classifier's rules apply in a fixed order and the first match
\* wins: reversal pattern (divergence or candlestick signal nonzero), strong
\* swing, trend follow (needs a nonzero ADX signal), momentum scalp, weak.
C6_FirstMatchWins ==
    ret.kind = "strategy" =>
        /\ C6_Rule1 => ret.v = "Donus Formasyonu"
        /\ ~C6_Rule1 /\ C6_Rule2 => ret.v = "Guclu Swing"
        /\ ~C6_Rule1 /\ ~C6_Rule2 /\ C6_Rule3 => ret.v = "Trend Takip"
        /\ ~C6_Rule1 /\ ~C6_Rule2 /\ ~C6_Rule3 /\ C6_Rule4 => ret.v = "Momentum Scalp"
        /\ ~C6_Rule1 /\ ~C6_Rule2 /\ ~C6_Rule3 /\ ~C6_Rule4 => ret.v = "Zayif Sinyal"

C6_Witness ==
    /\ ret.kind = "strategy" /\ C6_Sig("divergence") = 0
    /\ C6_Sig("candlestick") # 0 /\ C6_AbsScore >= DefaultReversalSwing
    /\ call.cfg = EmptyConfig /\ ret.v = "Donus Formasyonu"

\* the cells an interpreter call reads
C7_ReadCells ==
    CASE call.fn = "analyze_ema" ->
            {call.last[EmaCol(EmaPeriods(call.cfg)[i])] :
                i \in 1..Len(EmaPeriods(call.cfg))}
      [] call.fn = "analyze_macd" ->
            {call.last["MACD_12_26_9"], call.last["MACDs_12_26_9"]}
      [] call.fn = "analyze_rsi" -> {call.last["RSI_14"]}
      [] call.fn = "analyze_stoch_rsi" -> {call.last["STOCHRSIk_14_14_3_3"]}
      [] call.fn = "analyze_bollinger_bands" ->
            {call.last["BBL_20_2.0"], call.last["BBU_20_2.0"]}
      [] call.fn = "analyze_cci" -> {call.last["CCI_20_0.015"]}
      [] call.fn = "analyze_adx" ->
            {call.last["ADX_14"], call.last["DMP_14"], call.last["DMN_14"]}
      [] call.fn = "analyze_williams_r" -> {call.last["WILLR_14"]}
      [] call.fn = "analyze_supertrend" -> {call.last["SUPERTd_7_3.0"]}
      [] call.fn = "analyze_vwap" -> {call.last["VWAP_D"]}
      [] call.fn = "analyze_ichimoku" ->
            {call.last["ISA_9_26_52"], call.last["ISB_9_26_52"]}
      [] call.fn = "analyze_obv" -> {call.last["OBV"], call.prev_obv}
      [] call.fn = "analyze_candlestick" ->
            {call.last[CdlCols[i]] : i \in 1..Len(CdlCols)}
      [] call.fn = "analyze_funding_rate" -> {call.market_data.funding_rate}
      [] OTHER -> {NaN}
C7_Covered ==
    /\ call.fn \in InterpreterNames \ {"analyze_divergence", "analyze_classical_patterns"}
    /\ call.fn = "analyze_funding_rate" => ~call.market_data.is_none
    /\ call.fn = "analyze_ema" => Len(EmaPeriods(call.cfg)) > 0

\* C7: an interpreter whose indicator columns are all absent from the last
\* row (or whose snapshot has no funding rate) does not fail and emits 0.
C7_AbsentIsNeutral ==
    (ret.kind = "signal" /\ C7_Covered /\ \A c \in C7_ReadCells : c.k = "none")
        => ~ret.v.err /\ ret.v.signal = 0

---------------------------------------------------------------------------
(* run_full_analysis, one call at a time                                   *)

MaxRows == 3          \* candle tables of 0..MaxRows rows

Candle(ts, c, v) ==
    [timestamp |-> ts, high |-> c + 1, low |-> c - 1, close |-> c, volume |-> v]
\* n candles one tick apart, the last closing at 10, the earlier ones at c0
PipeTable(n, c0, v) ==
    [i \in 1..n |-> Candle(i - 1, IF i = n THEN 10 ELSE c0, v)]
PipeTables == {PipeTable(n, c0, v) : n \in 0..MaxRows, c0 \in {9, 11}, v \in {0, 1}}

AbsentInd == [c \in IndCols |-> None]
BullInd ==
    [c \in IndCols |->
        CASE c \in {"EMA_20", "EMA_50", "EMA_200", "ISA_9_26_52", "ISB_9_26_52"} -> Num(9)
          [] c \in {"BBL_20_2.0", "BBU_20_2.0"} -> Num(12)
          [] c \in {"MACD_12_26_9", "SUPERTd_7_3.0"} -> Num(1)
          [] c \in {"RSI_14", "STOCHRSIk_14_14_3_3"} -> Num(10)
          [] c \in {"CCI_20_0.015", "WILLR_14"} -> Num(-150)
          [] c \in {"ADX_14", "OBV"} -> Num(30)
          [] c = "DMP_14" -> Num(2)
          [] c = "DMN_14" -> Num(1)
          [] c = "OBV_prev" -> Num(20)
          [] c = "EMA_other" -> None
          [] OTHER -> Num(0)]
BearInd ==
    [c \in IndCols |->
        CASE c \in {"EMA_20", "EMA_50", "EMA_200", "ISA_9_26_52", "ISB_9_26_52"} -> Num(12)
          [] c \in {"BBL_20_2.0", "BBU_20_2.0"} -> Num(9)
          [] c = "MACDs_12_26_9" -> Num(1)
          [] c = "SUPERTd_7_3.0" -> Num(-1)
          [] c \in {"RSI_14", "STOCHRSIk_14_14_3_3"} -> Num(90)
          [] c = "CCI_20_0.015" -> Num(150)
          [] c = "WILLR_14" -> Num(-10)
          [] c \in {"ADX_14", "OBV_prev"} -> Num(30)
          [] c = "DMP_14" -> Num(1)
          [] c = "DMN_14" -> Num(2)
          [] c = "OBV" -> Num(20)
          [] c = "EMA_other" -> None
          [] OTHER -> Num(0)]
IndBases == {AbsentInd, BullInd, BearInd}
DevCells(c) ==
    IF c \in {"EMA_20", "EMA_50", "EMA_200", "ISA_9_26_52", "ISB_9_26_52",
              "BBL_20_2.0", "BBU_20_2.0"}
    THEN {None, Num(9), Num(12)}
    ELSE {None, Num(-100), Num(0), Num(100)}
\* the bases and every row that differs from a base in one cell
IndRows ==
    IndBases \cup UNION {{[b EXCEPT ![c] = v] : v \in DevCells(c)} :
                            b \in IndBases, c \in IndCols \ {"EMA_other"}}

Klines(rows, ind) == [is_none |-> FALSE, rows |-> rows, ind |-> ind]
NoKlines == [is_none |-> TRUE, rows |-> <<>>, ind |-> AbsentInd]

CfgMin(m) == [EmptyConfig EXCEPT !.min_data_points = Num(m)]
CfgTuned ==
    [CfgThresholds EXCEPT
        !.min_data_points = Num(2),
        !.ema_periods = [has |-> TRUE, v |-> <<50, 20>>],
        !.skor_agirliklar = [i \in {"ema", "macd", "rsi"} |->
                                IF i = "ema" THEN 3 ELSE IF i = "macd" THEN 4 ELSE 1]]
CfgNoPeriods == [CfgPeriods(<<>>) EXCEPT !.min_data_points = Num(2)]
PipeConfigs ==
    {EmptyConfig, CfgTuned, CfgNoPeriods} \cup {CfgMin(m) : m \in 0..MaxRows}

RCall(klines, ext, market_data, cfg, ta_raises) ==
    [fn |-> "run_full_analysis", klines |-> klines, ext |-> ext,
     market_data |-> market_data, cfg |-> cfg, ta_raises |-> ta_raises]

\* every table size against every configuration, library failure and snapshot
BoundaryCalls ==
    {RCall(k, NoExt, m, cfg, t) :
        k \in {NoKlines} \cup {Klines(r, i) : r \in PipeTables, i \in {AbsentInd, BullInd}},
        m \in {NoMarket, Market(None), Market(Num(1))},
        cfg \in PipeConfigs, t \in BOOLEAN}
\* every indicator row on a table that is long enough
SignalCalls ==
    {RCall(Klines(PipeTable(2, c0, 1), i), e, Market(fr), cfg, FALSE) :
        c0 \in {9, 11}, i \in IndRows, e \in Exts, fr \in {None, Num(1), Num(-1)},
        cfg \in {CfgMin(2), CfgTuned}}

CallRunFullAnalysis ==
    /\ ret = Pending /\ call.fn = "run_full_analysis"
    /\ ret' = run_full_analysis(call.klines, call.ext, call.market_data,
                                call.cfg, call.ta_raises)
    /\ UNCHANGED <<call, threadVars>>

InitAnalysis ==
    /\ call \in BoundaryCalls \cup SignalCalls
    /\ ret = Pending
    /\ Quiet

NextAnalysis == CallRunFullAnalysis

SpecAnalysis == InitAnalysis /\ [][NextAnalysis]_vars

---------------------------------------------------------------------------
(* Claims about run_full_analysis (under SpecAnalysis)                     *)

C1_Returned == call.fn = "run_full_analysis" /\ ret # Pending
C1_TooFewRows ==
    \/ call.klines.is_none
    \/ Len(call.klines.rows) <
          (IF call.cfg.min_data_points.k = "none" THEN DefaultMinDataPoints
           ELSE call.cfg.min_data_points.n)
C1_InterpreterRaises ==
    call.market_data.is_none \/ Len(EmaPeriods(call.cfg)) = 0
C1_IsEmptyResult(r) ==
    /\ r.kind = "result" /\ r.score = 0 /\ r.details = EmptyDetails
    /\ r.strategy \in {"Yetersiz veri", "Indikator Hesaplama Hatasi",
                       "Analiz Yorumlama Hatasi"}

\* C1: no exception leaves run_full_analysis: every call returns a result,
\* and with too few rows, a failing indicator step or a raising interpreter
\* that result is the zero-score empty result carrying a reason.
C1_FailsSoft ==
    C1_Returned =>
        /\ ret.kind = "result"
        /\ (C1_TooFewRows \/ call.ta_raises \/ C1_InterpreterRaises)
              => C1_IsEmptyResult(ret)

\* C2: a table shorter than min_data_points (default 200), or an absent
\* table, gives score 0, the insufficient-data text, empty details, price 0
\* and no interpreter output.
C2_InsufficientData ==
    (C1_Returned /\ C1_TooFewRows) =>
        /\ ret.kind = "result" /\ ret.score = 0
        /\ ret.strategy = "Yetersiz veri" /\ ret.details = EmptyDetails
        /\ ret.fiyat = Num(0) /\ ~ret.trace.interpreters_run

C2_Witness ==
    /\ C1_Returned /\ ~call.klines.is_none /\ Len(call.klines.rows) = MaxRows
    /\ call.cfg = EmptyConfig /\ ~call.ta_raises
    /\ ret.kind = "result" /\ ret.strategy = "Yetersiz veri"

C5_Scored == C1_Returned /\ ret.kind = "result" /\ ret.trace.interpreters_run
C5_Raw == calculate_confluence_score(ret.details, call.cfg)
C5_Filter == is_signal_safe(C5_Raw, LastRow(call.klines), call.cfg)

\* C5: when the filter reports unsafe the final score is the raw score
\* halved with truncation toward zero (raw // 2 for a positive raw score),
\* the label is "Riskli (<reason>)" and the classifier is not invoked; when
\* it reports safe the final score is the raw score and the label is the
\* classifier's.
C5_HalvedWhenUnsafe ==
    C5_Scored =>
        /\ ret.trace.raw_score = C5_Raw
        /\ ret.trace.is_safe = C5_Filter.is_safe
        /\ ~C5_Filter.is_safe =>
              /\ 2 * ret.score \in {C5_Raw, C5_Raw - 1, C5_Raw + 1}
              /\ C5_Raw > 0 => ret.score = C5_Raw \div 2
              /\ C5_Raw < 0 => ret.score = -((-C5_Raw) \div 2)
              /\ ret.strategy = "Riskli (Trend Karsiti)"
              /\ C5_Filter.reason = "Trend Karsiti"
              /\ ret.trace.classifier_calls = 0
        /\ C5_Filter.is_safe =>
              /\ ret.score = C5_Raw
              /\ ret.trace.classifier_calls = 1
              /\ ret.strategy = classify_signal_strategy(C5_Raw, ret.details, call.cfg)

C5_Witness ==
    /\ C5_Scored /\ ~ret.trace.is_safe
    /\ ret.trace.raw_score < 0 /\ ret.trace.raw_score % 2 = 1
    /\ 2 * ret.score = ret.trace.raw_score + 1

\* a positive raw score halved
C5_WitnessPositive ==
    /\ C5_Scored /\ ~ret.trace.is_safe /\ ret.trace.raw_score > 1
    /\ ret.score = ret.trace.raw_score \div 2

---------------------------------------------------------------------------
(* _calculate_manual_vwap, one call at a time                              *)

MaxTime == 4          \* timestamps 0..MaxTime, strictly increasing in a table

\* the tables of n candles at the increasing timestamps ts
RECURSIVE IncreasingTimes(_, _)
IncreasingTimes(n, lo) ==
    IF n = 0 THEN {<<>>}
    ELSE UNION {{<<t>> \o rest : rest \in IncreasingTimes(n - 1, t + 1)} :
                    t \in lo..MaxTime}
VwapTables ==
    UNION {{[i \in 1..Len(ts) |-> Candle(ts[i], c[i], v[i])] :
                c \in [1..Len(ts) -> {9, 12}], v \in [1..Len(ts) -> {0, 1, 2}]} :
            ts \in UNION {IncreasingTimes(n, 0) : n \in 0..MaxRows}}

CallVwap ==
    /\ ret = Pending /\ call.fn = "calculate_manual_vwap"
    /\ ret' = [kind |-> "vwap", v |-> calculate_manual_vwap(call.rows)]
    /\ UNCHANGED <<call, threadVars>>

InitVwap ==
    /\ call \in {[fn |-> "calculate_manual_vwap", rows |-> t] : t \in VwapTables}
    /\ ret = Pending
    /\ Quiet

NextVwap == CallVwap

SpecVwap == InitVwap /\ [][NextVwap]_vars

RECURSIVE C10_Sum(_, _)
C10_Sum(f, S) ==
    IF S = {} THEN 0
    ELSE LET j == CHOOSE x \in S : TRUE IN f[j] + C10_Sum(f, S \ {j})
C10_Day(i) == call.rows[i].timestamp \div TicksPerDay
\* the rows of row i's calendar day at or before it
C10_SameDay(i) == {j \in 1..i : C10_Day(j) = C10_Day(i)}
\* three times the sum of typical price x volume, and the sum of volume
C10_Num(i) ==
    C10_Sum([j \in 1..Len(call.rows) |->
                (call.rows[j].high + call.rows[j].low + call.rows[j].close)
                    * call.rows[j].volume], C10_SameDay(i))
C10_Den(i) ==
    C10_Sum([j \in 1..Len(call.rows) |-> call.rows[j].volume], C10_SameDay(i))

\* C10: the VWAP of every row is (sum of typical price x volume) / (sum of
\* volume) over exactly the rows of its own calendar day at or before it;
\* it is not a number while that day's volume is still zero.
C10_DailyVwap ==
    ret.kind = "vwap" =>
        /\ Len(ret.v) = Len(call.rows)
        /\ \A i \in 1..Len(call.rows) :
              IF C10_Den(i) = 0 THEN ret.v[i] = NaN
              ELSE /\ ret.v[i].k = "num" /\ ret.v[i].d > 0
                   /\ ret.v[i].n * 3 * C10_Den(i) = C10_Num(i) * ret.v[i].d

\* a table spanning two days: the last row restarts from its own day although
\* earlier days traded
C10_Witness ==
    /\ ret.kind = "vwap" /\ Len(call.rows) = MaxRows
    /\ C10_Day(1) < C10_Day(MaxRows) /\ C10_Day(MaxRows - 1) = C10_Day(MaxRows)
    /\ call.rows[1].volume > 0 /\ call.rows[1].close # call.rows[MaxRows].close
    /\ call.rows[MaxRows].volume > 0 /\ ret.v[MaxRows].k = "num"

---------------------------------------------------------------------------
(* main.py: the updater thread and the display loop                        *)

NumPairs == 2         \* the configured instruments are 1..NumPairs
MaxCycles == 2        \* refresh cycles the updater starts

Pariteler == [i \in 1..NumPairs |-> i]

\* what the exchange can answer for one instrument: no candles (the request
\* failed) or a table that is long enough for AppConfig
AppConfig == CfgMin(2)
FetchOutcomes == {NoKlines, Klines(PipeTable(2, 9, 1), BullInd)}

\* main.py:45: run_full_analysis(klines, market_data) of each fetch outcome
AnalysisOf ==
    [klines \in FetchOutcomes |->
        run_full_analysis(klines, NoExt, Market(None), AppConfig, FALSE)]
\* main.py:45-47: the analysis result of an instrument, tagged with the
\* instrument and (for the claims) the cycle that produced it
ResultOf(parite, klines) ==
    LET r == AnalysisOf[klines]
    IN  [parite |-> parite, cycle |-> cycle, score |-> r.score,
         strategy |-> r.strategy]

\* main.py:34-35: while keep_running: temp_results = []
UpdaterLoop ==
    /\ pcU = "while"
    /\ IF keep_running
       THEN /\ cycle < MaxCycles
            /\ cycle' = cycle + 1 /\ temp_results' = <<>> /\ idx' = 1
            /\ pcU' = "for"
       ELSE /\ pcU' = "done"
            /\ UNCHANGED <<cycle, temp_results, idx>>
    /\ UNCHANGED <<call, ret, keep_running, all_results, data_lock,
                   current_results, pcM, rendered>>

\* faulty variant: the for loop does not look at keep_running
UpdaterForNoBreak ==
    /\ pcU = "for"
    /\ pcU' = IF idx <= Len(Pariteler) THEN "fetch" ELSE "check"
    /\ UNCHANGED <<call, ret, keep_running, all_results, data_lock, temp_results,
                   current_results, pcM, idx, cycle, rendered>>

\* main.py:36-37: for parite in pariteler: if not keep_running: break
UpdaterFor ==
    /\ pcU = "for"
    /\ pcU' = IF idx <= Len(Pariteler) /\ keep_running THEN "fetch" ELSE "check"
    /\ UNCHANGED <<call, ret, keep_running, all_results, data_lock, temp_results,
                   current_results, pcM, idx, cycle, rendered>>

\* faulty variant: every result is put into the shared collection as it is produced
UpdaterFetchInPlace ==
    /\ pcU = "fetch"
    /\ \E klines \in FetchOutcomes :
          /\ temp_results' = Append(temp_results, ResultOf(Pariteler[idx], klines))
          /\ all_results' = Append(temp_results, ResultOf(Pariteler[idx], klines))
    /\ idx' = idx + 1
    /\ pcU' = "for"
    /\ UNCHANGED <<call, ret, keep_running, data_lock, current_results,
                   pcM, cycle, rendered>>

\* main.py:38-48: fetch, analyse, append to temp_results
UpdaterFetch ==
    /\ pcU = "fetch"
    /\ \E klines \in FetchOutcomes :
          temp_results' = Append(temp_results, ResultOf(Pariteler[idx], klines))
    /\ idx' = idx + 1
    /\ pcU' = "for"
    /\ UNCHANGED <<call, ret, keep_running, all_results, data_lock,
                   current_results, pcM, cycle, rendered>>

\* main.py:50: if temp_results:
UpdaterCheck ==
    /\ pcU = "check"
    /\ pcU' = IF temp_results # <<>> THEN "acquire" ELSE "sleep"
    /\ UNCHANGED <<call, ret, keep_running, all_results, data_lock, temp_results,
                   current_results, pcM, idx, cycle, rendered>>

\* main.py:52: with data_lock (enter)
UpdaterAcquire ==
    /\ pcU = "acquire" /\ data_lock = "free"
    /\ data_lock' = "updater" /\ pcU' = "replace"
    /\ UNCHANGED <<call, ret, keep_running, all_results, temp_results,
                   current_results, pcM, idx, cycle, rendered>>

\* main.py:54: all_results = copy.deepcopy(temp_results), and the with exit
UpdaterReplace ==
    /\ pcU = "replace"
    /\ all_results' = temp_results
    /\ data_lock' = "free" /\ pcU' = "sleep"
    /\ UNCHANGED <<call, ret, keep_running, temp_results, current_results,
                   pcM, idx, cycle, rendered>>

\* main.py:57: time.sleep(guncelleme_suresi)
UpdaterSleep ==
    /\ pcU = "sleep"
    /\ pcU' = "while"
    /\ UNCHANGED <<call, ret, keep_running, all_results, data_lock, temp_results,
                   current_results, pcM, idx, cycle, rendered>>

\* main.py:98: while keep_running
MainLoop ==
    /\ pcM = "while"
    /\ pcM' = IF keep_running THEN "keys" ELSE "done"
    /\ UNCHANGED <<call, ret, keep_running, all_results, data_lock, temp_results,
                   current_results, pcU, idx, cycle, rendered>>

\* main.py:101-106: no key, or up / down (the selection moves, then the
\* loop body goes on)
MainKeys ==
    /\ pcM = "keys"
    /\ pcM' = "acquire"
    /\ UNCHANGED <<call, ret, keep_running, all_results, data_lock, temp_results,
                   current_results, pcU, idx, cycle, rendered>>

\* main.py:107-109: 'q': keep_running = False; break
MainQuit ==
    /\ pcM = "keys"
    /\ keep_running' = FALSE
    /\ pcM' = "done"
    /\ UNCHANGED <<call, ret, all_results, data_lock, temp_results,
                   current_results, pcU, idx, cycle, rendered>>

\* main.py:113: with data_lock (enter)
MainAcquire ==
    /\ pcM = "acquire" /\ data_lock = "free"
    /\ data_lock' = "main" /\ pcM' = "copy"
    /\ UNCHANGED <<call, ret, keep_running, all_results, temp_results,
                   current_results, pcU, idx, cycle, rendered>>

\* faulty variant: the lock is kept after the copy
MainCopyKeepLock ==
    /\ pcM = "copy"
    /\ current_results' = all_results
    /\ pcM' = "render"
    /\ UNCHANGED <<call, ret, keep_running, all_results, data_lock, temp_results,
                   pcU, idx, cycle, rendered>>

\* main.py:114: current_results = copy.deepcopy(all_results), and the with exit
MainCopy ==
    /\ pcM = "copy"
    /\ current_results' = all_results
    /\ data_lock' = "free" /\ pcM' = "render"
    /\ UNCHANGED <<call, ret, keep_running, all_results, temp_results,
                   pcU, idx, cycle, rendered>>

\* main.py:116-117: if current_results: ui.update_layout(current_results, ...)
MainRender ==
    /\ pcM = "render"
    /\ rendered' = IF current_results # <<>> THEN current_results ELSE rendered
    /\ pcM' = "sleep"
    /\ UNCHANGED <<call, ret, keep_running, all_results, data_lock, temp_results,
                   current_results, pcU, idx, cycle>>

\* main.py:119: time.sleep(0.05)
MainSleep ==
    /\ pcM = "sleep"
    /\ pcM' = "while"
    /\ UNCHANGED <<call, ret, keep_running, all_results, data_lock, temp_results,
                   current_results, pcU, idx, cycle, rendered>>

\* main.py:19-21, 89-96: both loops about to start
Init ==
    /\ call = [fn |-> "main"] /\ ret = Pending
    /\ keep_running = TRUE /\ all_results = <<>> /\ data_lock = "free"
    /\ temp_results = <<>> /\ current_results = <<>>
    /\ pcU = "while" /\ pcM = "while"
    /\ idx = 0 /\ cycle = 0 /\ rendered = <<>>

Updater ==
    \/ UpdaterLoop \/ UpdaterFor \/ UpdaterFetch \/ UpdaterCheck
    \/ UpdaterAcquire \/ UpdaterReplace \/ UpdaterSleep
Main ==
    \/ MainLoop \/ MainKeys \/ MainQuit \/ MainAcquire \/ MainCopy
    \/ MainRender \/ MainSleep

\* main.py:84-88 and 125: the updater is a daemon thread and main() returns
\* without joining it, so once the foreground loop is left the process may
\* end at any moment and take the updater, wherever it is, with it
ProcessExit ==
    /\ pcM = "done" /\ pcU \notin {"done", "killed"}
    /\ pcU' = "killed"
    /\ data_lock' = IF data_lock = "updater" THEN "free" ELSE data_lock
    /\ UNCHANGED <<call, ret, keep_running, all_results, temp_results,
                   current_results, pcM, idx, cycle, rendered>>

Next == Updater \/ Main \/ ProcessExit

Spec == Init /\ [][Next]_vars

\* Both threads are operating-system threads that the scheduler keeps
\* running: a thread that can take a step eventually takes one.  Nothing is
\* assumed about when the process ends after main() has returned.
FairSpec == Spec /\ WF_vars(Updater) /\ WF_vars(Main)

---------------------------------------------------------------------------
(* Claims about the threads (under Spec)                                   *)

\* a collection built by one whole updater cycle: one result per configured
\* instrument, in configuration order, all of the same cycle
C8_WholeCycle(rs) ==
    /\ Len(rs) = NumPairs
    /\ \A i \in 1..NumPairs : rs[i].parite = i /\ rs[i].cycle = rs[1].cycle

\* C8: every snapshot the display loop takes or renders is the initial
\* empty collection or the complete collection of one updater cycle.
C8_SnapshotIsWhole ==
    /\ current_results = <<>> \/ C8_WholeCycle(current_results)
    /\ rendered = <<>> \/ C8_WholeCycle(rendered)

\* the display renders the second cycle's collection while the updater is
\* past it
C8_Witness ==
    /\ rendered # <<>> /\ rendered[1].cycle = MaxCycles
    /\ C8_WholeCycle(rendered) /\ pcM = "sleep"

\* C9: the lock is held only for the replace (updater) or the snapshot copy
\* (display), the shared collection is touched only under it, and no thread
\* holds it while fetching, analysing, rendering or sleeping.
C9_LockOnlyForCopy ==
    /\ data_lock \in {"free", "updater", "main"}
    /\ data_lock = "updater" <=> pcU = "replace"
    /\ data_lock = "main" <=> pcM = "copy"
    /\ pcU \in {"fetch", "sleep", "for", "check", "while"} => data_lock # "updater"
    /\ pcM \in {"render", "sleep", "keys", "while"} => data_lock # "main"

\* the display waits for the lock while the updater replaces the collection
C9_Witness ==
    /\ data_lock = "updater" /\ pcU = "replace" /\ pcM = "acquire"
    /\ Len(temp_results) = NumPairs

---------------------------------------------------------------------------
(* Claims about the divergence detector (under SpecUnits)                  *)

C11_Called == ret.kind = "signal" /\ call.fn = "analyze_divergence"
C11_HasRsi == call.last["RSI_14"].k # "none"
C11_Recent(s) == s[Len(s)]
C11_Prior(s) == s[Len(s) - 1]
C11_Bullish ==
    /\ Len(call.ext.price_troughs) >= 2 /\ Len(call.ext.rsi_troughs) >= 2
    /\ C11_Recent(call.ext.price_troughs) < C11_Prior(call.ext.price_troughs)
    /\ C11_Recent(call.ext.rsi_troughs) > C11_Prior(call.ext.rsi_troughs)
C11_Bearish ==
    /\ Len(call.ext.price_peaks) >= 2 /\ Len(call.ext.rsi_peaks) >= 2
    /\ C11_Recent(call.ext.price_peaks) > C11_Prior(call.ext.price_peaks)
    /\ C11_Recent(call.ext.rsi_peaks) < C11_Prior(call.ext.rsi_peaks)

\* C11: the detector reports one divergence per call, bullish before
\* bearish: +1 when the two latest price troughs descend while the two
\* latest RSI troughs ascend; -1 only when that did not trigger and the two
\* latest price peaks ascend while the two latest RSI peaks descend; 0
\* otherwise and whenever the RSI column is absent; +1 when both hold.
C11_OneDivergence ==
    C11_Called =>
        /\ ~ret.v.err
        /\ ret.v.signal \in {-1, 0, 1}
        /\ ret.v.signal = 1 <=> (C11_HasRsi /\ C11_Bullish)
        /\ ret.v.signal = -1 <=> (C11_HasRsi /\ ~C11_Bullish /\ C11_Bearish)
        /\ ~C11_HasRsi => ret.v.signal = 0

\* both conditions hold and the bullish one is reported
C11_Witness ==
    C11_Called /\ C11_HasRsi /\ C11_Bullish /\ C11_Bearish /\ ret.v.signal = 1

---------------------------------------------------------------------------
(* Claims about the summary builder (under SpecUnits)                      *)

C12_Called == ret.kind = "summary"
C12_Nonzero == {i \in DOMAIN call.analysis : call.analysis[i].signal # 0}
\* the weighted contribution of a key, as a numerator over WScale
C12_Contribution(i) ==
    call.analysis[i].signal *
        (IF i \in DOMAIN call.cfg.skor_agirliklar
         THEN call.cfg.skor_agirliklar[i] ELSE WScale)
C12_Mag(i) == IF C12_Contribution(i) < 0 THEN -C12_Contribution(i)
              ELSE C12_Contribution(i)
\* the key an entry names
C12_Key(item) == CHOOSE i \in Keys : Upper(i) = item.name
C12_Listed == {C12_Key(ret.v.items[j]) : j \in 1..Len(ret.v.items)}

\* C12: the summary lists only nonzero signals, at most three, in order of
\* non-increasing absolute weighted contribution, each as "NAME(+N)" or
\* "NAME(-N)" by the contribution's sign (N its magnitude to the nearest
\* integer); no omitted nonzero signal outweighs a listed one; with no
\* nonzero signal the text is the "no clear signal" marker.
C12_TopContributors ==
    C12_Called =>
        LET items == ret.v.items
        IN  /\ ret.v.marker <=> C12_Nonzero = {}
            /\ C12_Nonzero = {} => items = <<>>
            /\ Len(items) <= 3
            /\ \A j \in 1..Len(items) :
                  /\ \E i \in C12_Nonzero : Upper(i) = items[j].name
                  /\ items[j].sign = IF C12_Contribution(C12_Key(items[j])) > 0
                                     THEN "+" ELSE "-"
                  /\ 2 * WScale * items[j].n <= 2 * C12_Mag(C12_Key(items[j])) + WScale
                  /\ 2 * WScale * items[j].n >= 2 * C12_Mag(C12_Key(items[j])) - WScale
            /\ \A j, k \in 1..Len(items) :
                  j < k => /\ items[j].name # items[k].name
                           /\ C12_Mag(C12_Key(items[j])) >= C12_Mag(C12_Key(items[k]))
            /\ \A o \in C12_Nonzero \ C12_Listed :
                  /\ Len(items) = 3
                  /\ \A i \in C12_Listed : C12_Mag(o) <= C12_Mag(i)

\* four nonzero signals: the first in dict order is the one left out
C12_Witness ==
    /\ C12_Called /\ Cardinality(C12_Nonzero) = 4 /\ Len(ret.v.items) = 3
    /\ "ema" \notin C12_Listed /\ ret.v.items[1].name = "RSI"
    /\ ret.v.items[1].sign = "-"

---------------------------------------------------------------------------
(* Claims about the details of a result (under SpecAnalysis)               *)

C13_Result == C1_Returned /\ ret.kind = "result"
\* the analysis came through: the result was built by the scoring part
C13_Successful == C13_Result /\ ret.trace.interpreters_run
\* the result is the one built by _generate_empty_result
C13_FailSoft == C13_Result /\ ~ret.trace.interpreters_run

\* C13: in every result returned by run_full_analysis each entry of details
\* carries a signal in {-1, 0, +1}; a successful analysis has exactly one
\* entry for each of the sixteen interpreters, and a fail-soft result (too
\* few rows, failing indicator step, raising interpreter) has none.
C13_DetailsShape ==
    C13_Result =>
        /\ \A i \in DOMAIN ret.details : ret.details[i].signal \in {-1, 0, 1}
        /\ C13_Successful =>
              /\ DOMAIN ret.details = Keys
              /\ Cardinality(DOMAIN ret.details) = 16
        /\ C13_FailSoft => DOMAIN ret.details = {}
        /\ (C1_TooFewRows \/ call.ta_raises \/ C1_InterpreterRaises)
              => DOMAIN ret.details = {}

\* a successful analysis in which both EMAs vote the same way and all three
\* signal values occur
C13_Witness ==
    /\ C13_Successful /\ ~call.cfg.ema_periods.has
    /\ ret.details["ema"].signal = -1
    /\ \E i \in Keys : ret.details[i].signal = 1
    /\ \E i \in Keys : ret.details[i].signal = 0

C13_WitnessFailSoft ==
    C13_FailSoft /\ ~C1_TooFewRows /\ ~call.ta_raises /\ C1_InterpreterRaises

---------------------------------------------------------------------------
(* Claims about the shared collection and shutdown (under Spec)            *)

\* C14: in every reachable state all_results is empty (before the first
\* refresh) or holds exactly one result per configured instrument, in
\* configuration order, all of one updater cycle - also when quit is
\* requested while the updater is in the middle of a cycle.
C14_SharedIsWhole ==
    all_results = <<>> \/ C8_WholeCycle(all_results)

\* what the code does after a quit in mid-cycle: the loop breaks and the
\* results gathered so far replace the shared collection
C14_PartialPublished ==
    /\ ~keep_running /\ all_results # <<>> /\ Len(all_results) < NumPairs
    /\ pcU \in {"sleep", "while", "done"}

C15_Quit == ~keep_running
C15_BothEnded == pcM = "done" /\ pcU \in {"done", "killed"}

\* C15: once quit is requested, under fair scheduling both loops end: the
\* foreground loop is left at once and takes no further snapshot, the
\* updater starts no fetch at any flag test after the request, and both
\* threads eventually are out of their loops.
C15_QuitEndsBoth ==
    /\ [](C15_Quit => pcM = "done")
    /\ [][C15_Quit => current_results' = current_results]_vars
    /\ [][(C15_Quit /\ pcU # "fetch") => pcU' # "fetch"]_vars
    /\ (C15_Quit ~> C15_BothEnded)

\* quit came in mid-cycle; the updater saw the flag, broke off and left its
\* loop by itself
C15_Witness ==
    /\ C15_Quit /\ pcM = "done" /\ pcU = "done"
    /\ temp_results # <<>> /\ Len(temp_results) < NumPairs

====
